---- MODULE Spec2Model ----
(***************************************************************************)
(* Model of the Microsoft / Xbox / Minecraft login flow of PandoraLauncher, *)
(* and of its lock files and notification signal.                          *)
(*                                                                         *)
(*   crates/auth/src/credentials.rs   AccountCredentials, AuthStage,       *)
(*                                    AccountCredentials::stage            *)
(*   crates/backend/src/backend.rs    BackendState::login                  *)
(*                                                                         *)
(*   crates/backend/src/launcher_import.rs  import_accounts_from_multimc   *)
(*   crates/backend/src/lockfile.rs   Lockfile, get_path_semaphore         *)
(*   crates/bridge/src/notify_signal.rs  NotifySignal,                     *)
(*                                    KeepAliveNotifySignal                *)
(*                                                                         *)
(* Spec        one login attempt on a caller-supplied credential record.   *)
(* SpecLive    Spec with the fairness the async runtime provides.          *)
(* SpecFresh   SpecLive started on the empty record (a first login).      *)
(* SpecResolve AccountCredentials::stage applied to arbitrary records at   *)
(*             arbitrary instants.                                         *)
(* SpecImport  the credentials the MultiMC importer builds and stores.     *)
(* SpecLock    tasks of one process creating and dropping Lockfiles.       *)
(* SpecNotify  threads notifying and tasks awaiting one NotifySignal.      *)
(***************************************************************************)
EXTENDS Integers, Sequences, FiniteSets, TLC

\* ------------------------------------------------------------------------
\* Bounds of the model.

\* The clock (Utc::now()) takes the values 0..MaxTime; an expiry of
\* MaxTime + 1 is a token that outlives the run.
MaxTime == 2

\* Number of consecutive AccountCredentials::stage calls in SpecResolve.
MaxCalls == 2

\* ------------------------------------------------------------------------
\* AuthStage (repr(u8), derive(PartialOrd, Ord)): the declaration order is
\* the order the login loop compares stages in.

Initial == 0
MsaRefresh == 1
MsaAccess == 2
XboxLive == 3
XboxSecure == 4
AccessToken == 5

AUTH_STAGE_COUNT == 6

AuthStage == Initial..AccessToken

\* ------------------------------------------------------------------------
\* Option<T>: None is the empty sequence, Some(x) the one-element sequence.

None == <<>>
Some(x) == <<x>>
IsSome(o) == o # None
Unwrap(o) == o[1]

\* TokenWithExpiry { token, expiry } and XstsToken { token, expiry, userhash }.
TokenWithExpiry(t, e) == [token |-> t, expiry |-> e]
XstsToken(t, e, u) == [token |-> t, expiry |-> e, userhash |-> u]

Times == 0..MaxTime
Expiries == 0..(MaxTime + 1)

\* Token strings are numbers.  The string a record holds in a field before
\* the attempt is the negative of the field's number below, so that no two
\* fields hold the same string; a token issued by the k-th exchange call of
\* the attempt is the number k, distinct from every other.
CachedString(field) ==
    CASE field = "msa_refresh" -> -1
      [] field = "msa_access" -> -2
      [] field = "xbl" -> -3
      [] field = "xsts" -> -4
      [] field = "userhash" -> -5
      [] field = "access_token" -> -6
ClientIds == {"imported_client"}

\* AccountCredentials (#[derive(Default)]: every field None).
DefaultCredentials ==
    [msa_refresh |-> None,
     msa_refresh_force_client_id |-> None,
     msa_access |-> None,
     xbl |-> None,
     xsts |-> None,
     access_token |-> None]

OptToken(field) ==
    {None} \cup {Some(TokenWithExpiry(CachedString(field), e)) : e \in Expiries}
OptXsts ==
    {None} \cup {Some(XstsToken(CachedString("xsts"), e, CachedString("userhash"))) :
                    e \in Expiries}
OptStr(strings) == {None} \cup {Some(t) : t \in strings}

\* Every record a caller can hand to login or call stage on: each field
\* absent or present, each token with any expiry, past or to come.
Credentials ==
    [msa_refresh : OptStr({CachedString("msa_refresh")}),
     msa_refresh_force_client_id : OptStr(ClientIds),
     msa_access : OptToken("msa_access"),
     xbl : OptToken("xbl"),
     xsts : OptXsts,
     access_token : OptToken("access_token")]

\* ------------------------------------------------------------------------
\* AuthStageWithData: the stage plus the payload of its exchange call.

StageInitial == [stage |-> Initial]
StageMsaRefresh(refresh) == [stage |-> MsaRefresh, token |-> refresh]
StageMsaAccess(access) == [stage |-> MsaAccess, token |-> access]
StageXboxLive(xbl) == [stage |-> XboxLive, token |-> xbl]
StageXboxSecure(xsts, userhash) == [stage |-> XboxSecure, xsts |-> xsts, userhash |-> userhash]
StageAccessToken(token) == [stage |-> AccessToken, token |-> token]

\* Mutant of Unexpired: the comparison written `now <= tok.expiry`.
Unexpired_inclusive(field, t) == IsSome(field) /\ t <= Unwrap(field).expiry

\* `if let Some(tok) = &self.field && now < tok.expiry`
Unexpired(field, t) == IsSome(field) /\ t < Unwrap(field).expiry

\* Mutant of credentials_stage: the access token is moved out of the record
\* (Option::take) when it is returned.
credentials_stage_take(self, t) ==
    IF Unexpired(self.access_token, t)
    THEN [ret |-> StageAccessToken(Unwrap(self.access_token).token),
          self |-> [self EXCEPT !.access_token = None]]
    ELSE LET s1 == [self EXCEPT !.access_token = None] IN
    IF Unexpired(s1.xsts, t)
    THEN [ret |-> StageXboxSecure(Unwrap(s1.xsts).token, Unwrap(s1.xsts).userhash), self |-> s1]
    ELSE LET s2 == [s1 EXCEPT !.xsts = None] IN
    IF Unexpired(s2.xbl, t)
    THEN [ret |-> StageXboxLive(Unwrap(s2.xbl).token), self |-> s2]
    ELSE LET s3 == [s2 EXCEPT !.xbl = None] IN
    IF Unexpired(s3.msa_access, t)
    THEN [ret |-> StageMsaAccess(Unwrap(s3.msa_access).token), self |-> s3]
    ELSE LET s4 == [s3 EXCEPT !.msa_access = None] IN
    IF IsSome(s4.msa_refresh)
    THEN [ret |-> StageMsaRefresh(Unwrap(s4.msa_refresh)), self |-> s4]
    ELSE [ret |-> StageInitial, self |-> s4]

\* Mutant of credentials_stage: every expired token field is pruned, also the
\* ones shallower than the stage returned.
credentials_stage_purge(self, t) ==
    LET keep(f) == IF Unexpired(f, t) THEN f ELSE None
        s == [self EXCEPT !.access_token = keep(@), !.xsts = keep(@),
                          !.xbl = keep(@), !.msa_access = keep(@)]
    IN  IF IsSome(s.access_token)
        THEN [ret |-> StageAccessToken(Unwrap(s.access_token).token), self |-> s]
        ELSE IF IsSome(s.xsts)
        THEN [ret |-> StageXboxSecure(Unwrap(s.xsts).token, Unwrap(s.xsts).userhash), self |-> s]
        ELSE IF IsSome(s.xbl)
        THEN [ret |-> StageXboxLive(Unwrap(s.xbl).token), self |-> s]
        ELSE IF IsSome(s.msa_access)
        THEN [ret |-> StageMsaAccess(Unwrap(s.msa_access).token), self |-> s]
        ELSE IF IsSome(s.msa_refresh)
        THEN [ret |-> StageMsaRefresh(Unwrap(s.msa_refresh)), self |-> s]
        ELSE [ret |-> StageInitial, self |-> s]

\* AccountCredentials::stage(&mut self) with Utc::now() = t.  The result is
\* the returned AuthStageWithData (ret) and the record as the call leaves it
\* (self): a field is set to None at the point the cascade passes it.
credentials_stage(self, t) ==
    IF Unexpired(self.access_token, t)
    THEN [ret |-> StageAccessToken(Unwrap(self.access_token).token), self |-> self]
    ELSE LET s1 == [self EXCEPT !.access_token = None] IN
    IF Unexpired(s1.xsts, t)
    THEN [ret |-> StageXboxSecure(Unwrap(s1.xsts).token, Unwrap(s1.xsts).userhash), self |-> s1]
    ELSE LET s2 == [s1 EXCEPT !.xsts = None] IN
    IF Unexpired(s2.xbl, t)
    THEN [ret |-> StageXboxLive(Unwrap(s2.xbl).token), self |-> s2]
    ELSE LET s3 == [s2 EXCEPT !.xbl = None] IN
    IF Unexpired(s3.msa_access, t)
    THEN [ret |-> StageMsaAccess(Unwrap(s3.msa_access).token), self |-> s3]
    ELSE LET s4 == [s3 EXCEPT !.msa_access = None] IN
    IF IsSome(s4.msa_refresh)
    THEN [ret |-> StageMsaRefresh(Unwrap(s4.msa_refresh)), self |-> s4]
    ELSE [ret |-> StageInitial, self |-> s4]

\* ------------------------------------------------------------------------
\* State.

VARIABLES
    credentials,      \* the AccountCredentials record login works on
    now,              \* the wall clock, Utc::now()
    cancel,           \* modal_action.request_cancel has been cancelled
    pc,               \* position of login: start, loop, redirect, exchange, done
    last_auth_stage,  \* Option<AuthStage>
    allow_backwards,  \* bool
    stage,            \* the stage resolved at line 431 of this iteration (None before)
    call,             \* the AuthStageWithData matched at line 453 (None when no arm runs)
    result,           \* what login returned ([tag |-> "Running"] until it returns)
    progress,         \* login_tracker: [count, total]
    hist,             \* history: the stages resolved at line 431, in order
    calls,            \* history: the stage of every exchange call begun, in order
    exchange,         \* history: the last exchange call that returned (None before)
    resolved,         \* SpecResolve: the log of stage() calls
    imported,         \* SpecImport: the account the importer has just handled (None between two)
    written_credentials, \* the record last passed to write_credentials for the account at hand (None: no call)
    lapsed,           \* history: a stage() call of this attempt met a token that had expired since the attempt began
    LOCKED,           \* SpecLock: the static map of lockfile.rs, path -> semaphore (None: no entry)
    lock_call,        \* SpecLock: each task's call of Lockfile::create / try_create and the Lockfile it got
    file_lock,        \* SpecLock: the operating system's lock on the file of each path: free, foreign (another process) or handle (a File of this process)
    value,            \* SpecNotify: NotifySignalInner.value
    notify,           \* SpecNotify: NotifySignalInner.notify, the semaphore's permits
    notifier,         \* SpecNotify: each notifying thread's position in NotifySignal::notify
    awaiter,          \* SpecNotify: each awaiting task's position in await_notification, and its calls
    keep_alive        \* SpecNotify: the KeepAliveNotifySignal owning the signal (None: a plain NotifySignal)

lockVars == <<LOCKED, lock_call, file_lock>>

notifyVars == <<value, notify, notifier, awaiter, keep_alive>>

vars == <<credentials, now, cancel, pc, last_auth_stage, allow_backwards, stage,
          call, result, progress, hist, calls, exchange, resolved, imported, written_credentials, lapsed,
          lockVars, notifyVars>>

loginVars == <<cancel, pc, last_auth_stage, allow_backwards, stage,
               call, result, progress, hist, calls, exchange, lapsed>>

Running == [tag |-> "Running"]
Ok(token) == [tag |-> "Ok", token |-> token]
Err(error) == [tag |-> "Err", error |-> error]

\* ------------------------------------------------------------------------
\* State of lockfile.rs and notify_signal.rs.

\* The tasks that call Lockfile::create and Lockfile::try_create.
MaxTasks == 3
Tasks == 1..MaxTasks

\* The paths that are locked (the keys of LOCKED).
Paths == {"instances.lock", "launcher.lock"}

\* Semaphore::new(permits), with the queue of the tasks waiting in
\* acquire_owned.
Semaphore_new(permits) == [permits |-> permits, waiters |-> <<>>]

\* A task that is in no call: op is the function called, at the position in
\* it, ret what the last call returned ("-": nothing yet).
IdleCall == [op |-> "-", path |-> "-", at |-> "idle", ret |-> "-"]

\* LOCKED is empty (Lazy::new(Default::default)), no task is in a call and no
\* file is locked.
LockfileUnused ==
    /\ LOCKED = [p \in Paths |-> None]
    /\ lock_call = [t \in Tasks |-> IdleCall]
    /\ file_lock = [p \in Paths |-> "free"]

\* The threads that call NotifySignal::notify and the tasks that call
\* await_notification, and the calls each awaiting task makes.
MaxNotifiers == 2
MaxAwaiters == 3
MaxAwaitCalls == 2
Notifiers == 1..MaxNotifiers
Awaiters == 1..MaxAwaiters

\* Semaphore::MAX_PERMITS (usize::MAX >> 3): more permits than there can be
\* tasks waiting; any number above the number of awaiting tasks stands for
\* it.
MAX_PERMITS == MaxAwaiters + 1

\* NotifySignal::new(): value false, a semaphore of no permits.
NotifySignal_new == [value |-> FALSE, notify |-> 0]

\* An awaiting task that has made no call: waited tells whether its last
\* call went on to acquire().
IdleAwaiter == [at |-> "idle", calls |-> 0, waited |-> FALSE]

\* A NotifySignal nobody has used yet.
NotifySignalUnused ==
    /\ value = NotifySignal_new.value
    /\ notify = NotifySignal_new.notify
    /\ notifier = [n \in Notifiers |-> "idle"]
    /\ awaiter = [a \in Awaiters |-> IdleAwaiter]
    /\ keep_alive = None

\* ------------------------------------------------------------------------
\* SpecResolve: stage() as a function of the record and the instant.

InitResolve ==
    /\ credentials \in Credentials
    /\ now = 0
    /\ cancel = FALSE
    /\ pc = "start"
    /\ last_auth_stage = None
    /\ allow_backwards = TRUE
    /\ stage = None
    /\ call = None
    /\ result = Running
    /\ progress = [count |-> 0, total |-> 0]
    /\ hist = <<>>
    /\ calls = <<>>
    /\ exchange = None
    /\ resolved = <<>>
    /\ imported = None
    /\ written_credentials = None
    /\ lapsed = FALSE
    /\ LockfileUnused
    /\ NotifySignalUnused

\* One call of credentials.stage(); the log keeps the instant, the record
\* before, the value returned and the record after.
ResolveCall ==
    /\ Len(resolved) < MaxCalls
    /\ LET r == credentials_stage(credentials, now) IN
        /\ credentials' = r.self
        /\ resolved' = Append(resolved,
                [at |-> now, pre |-> credentials, ret |-> r.ret, post |-> r.self])
    /\ UNCHANGED <<now, imported, written_credentials, loginVars, lockVars, notifyVars>>

\* Time passes between two calls.
ResolveTick ==
    /\ now < MaxTime
    /\ now' = now + 1
    /\ UNCHANGED <<credentials, resolved, imported, written_credentials, loginVars, lockVars, notifyVars>>

NextResolve == ResolveCall \/ ResolveTick

SpecResolve == InitResolve /\ [][NextResolve]_vars

\* ------------------------------------------------------------------------
\* Spec: BackendState::login, one attempt.

\* Failure classes of an exchange call: error.is_connection_error() holds of
\* the first only.  (Which non-connection error it is decides only whether
\* a warning is logged.)
ErrorKinds == {"ConnectionError", "OtherError"}
is_connection_error(error) == error = "ConnectionError"

\* A token issued at instant t expires after t: at the next instant, or not
\* before the run is over.
IssuedExpiries(t) == {t + 1, MaxTime + 1}

\* The token string issued by the exchange call now in flight.
Issued == Len(calls)

Init ==
    /\ credentials \in Credentials
    /\ now = 0
    /\ cancel = FALSE
    /\ pc = "start"
    /\ last_auth_stage = None
    /\ allow_backwards = TRUE
    /\ stage = None
    /\ call = None
    /\ result = Running
    /\ progress = [count |-> 0, total |-> 0]
    /\ hist = <<>>
    /\ calls = <<>>
    /\ exchange = None
    /\ resolved = <<>>
    /\ imported = None
    /\ written_credentials = None
    /\ lapsed = FALSE
    /\ LockfileUnused
    /\ NotifySignalUnused

\* login returns `ret`.
Return(ret) ==
    /\ result' = ret
    /\ pc' = "done"

\* Lines 417-425: the tracker's total, last_auth_stage and allow_backwards.
LoginStart ==
    /\ pc = "start"
    /\ progress' = [progress EXCEPT !.total = AUTH_STAGE_COUNT + 1]
    /\ last_auth_stage' = None
    /\ allow_backwards' = TRUE
    /\ pc' = "loop"
    /\ UNCHANGED <<credentials, now, cancel, stage, call, result, hist, calls,
                   exchange, resolved, imported, written_credentials, lapsed, lockVars, notifyVars>>

\* The clock advances while login is suspended.  Only stage() reads the
\* clock, so time that passes during an await is time that has passed when
\* the next iteration begins.
Tick ==
    /\ pc = "loop"
    /\ now < MaxTime
    /\ now' = now + 1
    /\ UNCHANGED <<credentials, resolved, imported, written_credentials, loginVars, lockVars, notifyVars>>

\* The user asks to cancel (modal_action.request_cancel), at any moment of
\* the attempt.
RequestCancel ==
    /\ pc # "done"
    /\ ~cancel
    /\ cancel' = TRUE
    /\ UNCHANGED <<credentials, now, pc, last_auth_stage, allow_backwards, stage,
                   call, result, progress, hist, calls, exchange, resolved, imported, written_credentials, lapsed, lockVars, notifyVars>>

\* Mutant of monotonicity: the backwards branch is missing.
monotonicity_no_backwards(last, s, allow) ==
    IF IsSome(last)
    THEN IF s > Unwrap(last)
         THEN [allow_backwards |-> FALSE, error |-> None]
         ELSE IF s = Unwrap(last)
         THEN [allow_backwards |-> allow, error |-> Some("LoginStageErrorDidntChange")]
         ELSE [allow_backwards |-> allow, error |-> None]
    ELSE [allow_backwards |-> allow, error |-> None]

\* Mutant of monotonicity: the equality test is nested under the test of
\* allow_backwards, as the backwards test is.
monotonicity_equal_when_disallowed(last, s, allow) ==
    IF IsSome(last)
    THEN IF s > Unwrap(last)
         THEN [allow_backwards |-> FALSE, error |-> None]
         ELSE IF s < Unwrap(last) /\ ~allow
         THEN [allow_backwards |-> allow, error |-> Some("LoginStageErrorBackwards")]
         ELSE IF s = Unwrap(last) /\ ~allow
         THEN [allow_backwards |-> allow, error |-> Some("LoginStageErrorDidntChange")]
         ELSE [allow_backwards |-> allow, error |-> None]
    ELSE [allow_backwards |-> allow, error |-> None]

\* Mutant of monotonicity: a permitted step backwards permits backwards
\* steps again.
monotonicity_relatch(last, s, allow) ==
    IF IsSome(last)
    THEN IF s > Unwrap(last)
         THEN [allow_backwards |-> FALSE, error |-> None]
         ELSE IF s < Unwrap(last)
         THEN [allow_backwards |-> TRUE, error |-> None]
         ELSE IF s = Unwrap(last)
         THEN [allow_backwards |-> allow, error |-> Some("LoginStageErrorDidntChange")]
         ELSE [allow_backwards |-> allow, error |-> None]
    ELSE [allow_backwards |-> allow, error |-> None]

\* Lines 437-450: the comparison of the resolved stage with the previous
\* iteration's.  error is None when the iteration goes on.
monotonicity(last, s, allow) ==
    IF IsSome(last)
    THEN IF s > Unwrap(last)
         THEN [allow_backwards |-> FALSE, error |-> None]
         ELSE IF s < Unwrap(last) /\ ~allow
         THEN [allow_backwards |-> allow, error |-> Some("LoginStageErrorBackwards")]
         ELSE IF s = Unwrap(last)
         THEN [allow_backwards |-> allow, error |-> Some("LoginStageErrorDidntChange")]
         ELSE [allow_backwards |-> allow, error |-> None]
    ELSE [allow_backwards |-> allow, error |-> None]

\* Line 453: `match credentials.stage()`, the second stage() call of the
\* iteration, on the record `self` the first call left, at instant t; then
\* the entry of the matched arm.  The Initial arm first waits for the
\* redirect (lines 457-466); every other arm begins its exchange call.
Dispatch(self, t) ==
    LET r == credentials_stage(self, t) IN
    /\ credentials' = r.self
    /\ now' = t
    /\ call' = Some(r.ret)
    /\ IF r.ret.stage = Initial
       THEN pc' = "redirect" /\ UNCHANGED calls
       ELSE pc' = "exchange" /\ calls' = Append(calls, r.ret.stage)

\* A token of the record self that had not expired when the attempt began
\* (the clock then read 0) or was issued since, has expired at instant t:
\* the `now < tok.expiry` of stage() now fails for it.
Lapsed(self, t) ==
    \E f \in {"msa_access", "xbl", "xsts", "access_token"} :
        Unexpired(self[f], 0) /\ ~Unexpired(self[f], t)

\* Mutant of has_requested_cancel: the loop never looks at the request.
has_requested_cancel_never == FALSE

\* Line 427: modal_action.has_requested_cancel().
has_requested_cancel == cancel

\* Lines 426-453: one loop iteration up to its first await.  No await lies
\* between the stage() call of line 431 and that of line 453, but each reads
\* Utc::now() anew: the second reads an instant t at or after the first's.
LoopTop ==
    /\ pc = "loop"
    /\ IF has_requested_cancel
       THEN /\ Return(Err("CancelledByUser"))
            /\ UNCHANGED <<credentials, now, last_auth_stage, allow_backwards, stage,
                           call, progress, hist, calls, lapsed>>
       ELSE LET r == credentials_stage(credentials, now)
                s == r.ret.stage
                m == monotonicity(last_auth_stage, s, allow_backwards)
            IN  /\ stage' = Some(s)
                /\ progress' = [progress EXCEPT !.count = s + 1]
                /\ hist' = Append(hist, s)
                /\ allow_backwards' = m.allow_backwards
                /\ IF IsSome(m.error)
                   THEN /\ Return(Err(Unwrap(m.error)))
                        /\ credentials' = r.self
                        /\ lapsed' = (lapsed \/ Lapsed(credentials, now))
                        /\ UNCHANGED <<now, last_auth_stage, call, calls>>
                   ELSE /\ last_auth_stage' = Some(s)
                        /\ \E t \in now..MaxTime :
                              /\ Dispatch(r.self, t)
                              /\ lapsed' = (lapsed \/ Lapsed(credentials, t))
                        /\ UNCHANGED result
    /\ UNCHANGED <<cancel, exchange, resolved, imported, written_credentials, lockVars, notifyVars>>

\* Lines 466-479: serve_redirect::start_server wins the select!; `finished?`
\* returns its error, otherwise finish_authorization is called.
ServeRedirect ==
    /\ pc = "redirect"
    /\ \/ /\ pc' = "exchange"
          /\ calls' = Append(calls, Initial)
          /\ UNCHANGED result
       \/ /\ Return(Err("ServeRedirectError"))
          /\ UNCHANGED calls
    /\ UNCHANGED <<credentials, now, cancel, last_auth_stage, allow_backwards, stage,
                   call, progress, hist, exchange, resolved, imported, written_credentials, lapsed, lockVars, notifyVars>>

\* Mutant of RedirectCancelled: the redirect is awaited alone, without the
\* cancellation branch.
RedirectCancelled_unraced == FALSE /\ UNCHANGED vars

\* Lines 468-470: the cancellation branch of the select!.
RedirectCancelled ==
    /\ pc = "redirect"
    /\ cancel
    /\ Return(Err("CancelledByUser"))
    /\ UNCHANGED <<credentials, now, cancel, last_auth_stage, allow_backwards, stage,
                   call, progress, hist, calls, exchange, resolved, imported, written_credentials, lapsed, lockVars, notifyVars>>

\* The exchange call of stage s is in flight.
InFlight(s) == pc = "exchange" /\ Unwrap(call).stage = s

\* What an arm leaves alone when its exchange call returns.
ArmFrame == UNCHANGED <<now, cancel, last_auth_stage, allow_backwards, stage,
                        hist, calls, resolved, imported, written_credentials, lapsed, lockVars, notifyVars>>

\* The arm ends and the loop goes round (the matched value goes out of scope).
Continue == pc' = "loop" /\ call' = None /\ UNCHANGED <<result, progress>>

\* Mutant of Fail: the arm drops the forced client id before it returns the
\* error.
Fail_clears_override(error) ==
    /\ Return(Err(error))
    /\ credentials' = [credentials EXCEPT !.msa_refresh_force_client_id = None]
    /\ UNCHANGED <<progress, call>>

\* The arm returns the error of its exchange call.
Fail(error) == Return(Err(error)) /\ UNCHANGED <<credentials, progress, call>>

\* Line 488: the second argument of refresh_msa,
\* &credentials.msa_refresh_force_client_id.
refresh_msa_client_id(self) == self.msa_refresh_force_client_id

\* History of the exchange call that returns in this step: its number in
\* the attempt, its stage, allow_backwards as the arm reads it, what the
\* call returned, whether cancellation had been requested by then, the
\* client id passed to refresh_msa (None for the other calls), the record
\* before and after the arm, and whether the arm returned from login.
Exchanged(what) ==
    exchange' = Some([index |-> Len(calls),
                      stage |-> Unwrap(call).stage,
                      allow |-> allow_backwards,
                      outcome |-> what,
                      cancelled |-> cancel,
                      client_id |-> IF Unwrap(call).stage = MsaRefresh
                                    THEN refresh_msa_client_id(credentials)
                                    ELSE None,
                      pre |-> credentials,
                      post |-> credentials',
                      returned |-> pc' = "done"])

\* Mutant of fatal: a connection error is treated like a rejected token.
fatal_no_connection(allow, error) == ~allow

\* Mutant of fatal: the fallback is taken whatever allow_backwards says.
fatal_always_backwards(allow, error) == is_connection_error(error)

\* Mutant of fatal: every error returns from login.
fatal_every_error(allow, error) == TRUE

\* `if !allow_backwards || error.is_connection_error() { return Err(..) }`
\* (lines 501, 520, 538, 556, 577).
fatal(allow, error) == ~allow \/ is_connection_error(error)

\* Lines 479-483: finish_authorization returns.
FinishAuthorization ==
    /\ InFlight(Initial)
    /\ \/ \E e \in IssuedExpiries(now), refresh \in {None, Some(Issued)} :
            /\ credentials' = [credentials EXCEPT
                    !.msa_access = Some(TokenWithExpiry(Issued, e)),
                    !.msa_refresh = refresh,
                    !.msa_refresh_force_client_id = None]
            /\ Continue
            /\ Exchanged("ok")
       \/ \E error \in ErrorKinds :
            /\ Fail(error)
            /\ Exchanged(error)
    /\ ArmFrame

\* Mutant of RefreshMsa: Ok(Some(..)) drops the forced client id, as the
\* Initial arm does.
RefreshMsa_clears_override ==
    /\ InFlight(MsaRefresh)
    /\ \/ \E e \in IssuedExpiries(now), refresh \in {None, Some(Issued)} :
            /\ credentials' = [credentials EXCEPT
                    !.msa_access = Some(TokenWithExpiry(Issued, e)),
                    !.msa_refresh = refresh,
                    !.msa_refresh_force_client_id = None]
            /\ Continue
            /\ Exchanged("ok")
       \/ /\ IF ~allow_backwards
             THEN Fail("InvalidGrant")
             ELSE /\ credentials' = [credentials EXCEPT
                        !.msa_refresh = None,
                        !.msa_refresh_force_client_id = None]
                  /\ Continue
          /\ Exchanged("none")
       \/ \E error \in ErrorKinds :
            /\ IF fatal(allow_backwards, error)
               THEN Fail(error)
               ELSE /\ credentials' = [credentials EXCEPT
                          !.msa_refresh = None,
                          !.msa_refresh_force_client_id = None]
                    /\ Continue
            /\ Exchanged(error)
    /\ ArmFrame

\* Lines 488-510: refresh_msa returns.
RefreshMsa ==
    /\ InFlight(MsaRefresh)
    /\ \/ \E e \in IssuedExpiries(now), refresh \in {None, Some(Issued)} :
            /\ credentials' = [credentials EXCEPT
                    !.msa_access = Some(TokenWithExpiry(Issued, e)),
                    !.msa_refresh = refresh]
            /\ Continue
            /\ Exchanged("ok")
       \/ /\ IF ~allow_backwards
             THEN Fail("InvalidGrant")
             ELSE /\ credentials' = [credentials EXCEPT
                        !.msa_refresh = None,
                        !.msa_refresh_force_client_id = None]
                  /\ Continue
          /\ Exchanged("none")
       \/ \E error \in ErrorKinds :
            /\ IF fatal(allow_backwards, error)
               THEN Fail(error)
               ELSE /\ credentials' = [credentials EXCEPT
                          !.msa_refresh = None,
                          !.msa_refresh_force_client_id = None]
                    /\ Continue
            /\ Exchanged(error)
    /\ ArmFrame

\* Mutant of ExchangeArm: an error that is not fatal is logged and the loop
\* goes round with the record as it was.
ExchangeArm_swallows(used, written, token) ==
    \/ /\ credentials' = [credentials EXCEPT ![written] = Some(token)]
       /\ Continue
       /\ Exchanged("ok")
    \/ \E error \in ErrorKinds :
         /\ IF fatal(allow_backwards, error)
            THEN Fail(error)
            ELSE /\ UNCHANGED credentials
                 /\ Continue
         /\ Exchanged(error)

\* The arms of MsaAccess, XboxLive and XboxSecure have one shape: on Ok the
\* field `written` is set to the issued token, on an error that is not fatal
\* the field `used` is set to None.
ExchangeArm(used, written, token) ==
    \/ /\ credentials' = [credentials EXCEPT ![written] = Some(token)]
       /\ Continue
       /\ Exchanged("ok")
    \/ \E error \in ErrorKinds :
         /\ IF fatal(allow_backwards, error)
            THEN Fail(error)
            ELSE /\ credentials' = [credentials EXCEPT ![used] = None]
                 /\ Continue
         /\ Exchanged(error)

\* Lines 515-528: authenticate_xbox returns.
AuthenticateXbox ==
    /\ InFlight(MsaAccess)
    /\ \E e \in IssuedExpiries(now) :
         ExchangeArm("msa_access", "xbl", TokenWithExpiry(Issued, e))
    /\ ArmFrame

\* Lines 533-546: obtain_xsts returns.
ObtainXsts ==
    /\ InFlight(XboxLive)
    /\ \E e \in IssuedExpiries(now) :
         ExchangeArm("xbl", "xsts", XstsToken(Issued, e, Issued))
    /\ ArmFrame

\* Lines 551-564: authenticate_minecraft returns.
AuthenticateMinecraft ==
    /\ InFlight(XboxSecure)
    /\ \E e \in IssuedExpiries(now) :
         ExchangeArm("xsts", "access_token", TokenWithExpiry(Issued, e))
    /\ ArmFrame

\* Lines 569-585: get_minecraft_profile returns.
GetMinecraftProfile ==
    /\ InFlight(AccessToken)
    /\ \/ /\ progress' = [progress EXCEPT !.count = AUTH_STAGE_COUNT + 1]
          /\ Return(Ok(Unwrap(call).token))
          /\ UNCHANGED <<credentials, call>>
          /\ Exchanged("ok")
       \/ \E error \in ErrorKinds :
            /\ IF fatal(allow_backwards, error)
               THEN Fail(error)
               ELSE /\ credentials' = [credentials EXCEPT !.access_token = None]
                    /\ Continue
            /\ Exchanged(error)
    /\ ArmFrame

Next ==
    \/ LoginStart
    \/ Tick
    \/ RequestCancel
    \/ LoopTop
    \/ ServeRedirect
    \/ RedirectCancelled
    \/ FinishAuthorization
    \/ RefreshMsa
    \/ AuthenticateXbox
    \/ ObtainXsts
    \/ AuthenticateMinecraft
    \/ GetMinecraftProfile

Spec == Init /\ [][Next]_vars

\* An exchange call in flight returns.
ExchangeReturns ==
    \/ FinishAuthorization
    \/ RefreshMsa
    \/ AuthenticateXbox
    \/ ObtainXsts
    \/ AuthenticateMinecraft
    \/ GetMinecraftProfile

\* SpecLive: login as the runtime drives it.  The future is polled until it
\* completes, so the steps that wait for nothing are taken; an exchange call
\* in flight returns; and the select! of lines 466-471 completes through its
\* cancellation branch once request_cancel is cancelled.  Nothing is assumed
\* of the redirect (the user may never finish the login in the browser), of
\* the clock or of the cancellation request.
SpecLive ==
    /\ Spec
    /\ WF_vars(LoginStart)
    /\ WF_vars(LoopTop)
    /\ WF_vars(ExchangeReturns)
    /\ WF_vars(RedirectCancelled)

\* SpecFresh: SpecLive for a first login, the caller passing the record of
\* AccountCredentials::default().
InitFresh == Init /\ credentials = DefaultCredentials

SpecFresh ==
    /\ InitFresh
    /\ [][Next]_vars
    /\ WF_vars(LoginStart)
    /\ WF_vars(LoopTop)
    /\ WF_vars(ExchangeReturns)
    /\ WF_vars(RedirectCancelled)

\* ------------------------------------------------------------------------
\* SpecImport: import_accounts_from_multimc, the credentials loop (lines
\* 420-482 of launcher_import.rs) over the MSA accounts of accounts.json.

\* A timestamp that DateTime::from_timestamp_secs rejects.
TimestampOutOfRange == MaxTime + 2

\* MultiMCAccountToken::exp: Option<i64>.
MultiMCExps == {None} \cup {Some(e) : e \in Expiries \cup {TimestampOutOfRange}}

\* MultiMCAccountToken::extra: Option<MultiMCAccountTokenExtra { uhs }>.
MultiMCExtras ==
    {None, Some([uhs |-> None]), Some([uhs |-> Some(CachedString("userhash"))])}

\* Option<MultiMCAccountToken { token, extra, refresh_token, exp }>.
OptMultiMCToken(field, extras, refreshes) ==
    {None} \cup {Some(t) : t \in [token : {CachedString(field)},
                                  extra : extras,
                                  refresh_token : refreshes,
                                  exp : MultiMCExps]}

\* MultiMCAccount::MSA with a profile; `extra` is read of xrp-mc only and
\* `refresh_token` of msa only.
MultiMCAccounts ==
    [msa_client_id : OptStr(ClientIds),
     msa : OptMultiMCToken("msa_access", {None}, OptStr({CachedString("msa_refresh")})),
     utoken : OptMultiMCToken("xbl", {None}, {None}),
     xrp_mc : OptMultiMCToken("xsts", MultiMCExtras, {None}),
     ygg : OptMultiMCToken("access_token", {None}, {None})]

\* DateTime::from_timestamp_secs(exp).
from_timestamp_secs(exp) == IF exp = TimestampOutOfRange THEN None ELSE Some(exp)

\* `if let Some(exp) = DateTime::from_timestamp_secs(exp) && exp < now`
\* (lines 437, 446, 459, 469).
exp_before_now(exp, t) ==
    IsSome(from_timestamp_secs(exp)) /\ Unwrap(from_timestamp_secs(exp)) < t

\* `if let Some(tok) = tok && let Some(exp) = tok.exp` (lines 431, 445, 468).
HasExp(tok) == IsSome(tok) /\ IsSome(Unwrap(tok).exp)

\* Lines 426-476: the record built for one account at instant t, and
\* non_default_creds.
import_credentials(account, t) ==
    LET msa == account.msa
        xbl == account.utoken
        xsts == account.xrp_mc
        ygg == account.ygg
        takeRefresh == /\ HasExp(msa)
                       /\ IsSome(account.msa_client_id)
                       /\ IsSome(Unwrap(msa).refresh_token)
        takeMsa == HasExp(msa) /\ exp_before_now(Unwrap(Unwrap(msa).exp), t)
        takeXbl == HasExp(xbl) /\ exp_before_now(Unwrap(Unwrap(xbl).exp), t)
        takeXsts == /\ HasExp(xsts)
                    /\ IsSome(Unwrap(xsts).extra)
                    /\ IsSome(Unwrap(Unwrap(xsts).extra).uhs)
                    /\ exp_before_now(Unwrap(Unwrap(xsts).exp), t)
        takeYgg == HasExp(ygg) /\ exp_before_now(Unwrap(Unwrap(ygg).exp), t)
    IN  [credentials |->
            [msa_refresh |->
                IF takeRefresh THEN Unwrap(msa).refresh_token ELSE None,
             msa_refresh_force_client_id |->
                IF takeRefresh THEN Some(Unwrap(account.msa_client_id)) ELSE None,
             msa_access |->
                IF takeMsa
                THEN Some(TokenWithExpiry(Unwrap(msa).token,
                          Unwrap(from_timestamp_secs(Unwrap(Unwrap(msa).exp)))))
                ELSE None,
             xbl |->
                IF takeXbl
                THEN Some(TokenWithExpiry(Unwrap(xbl).token,
                          Unwrap(from_timestamp_secs(Unwrap(Unwrap(xbl).exp)))))
                ELSE None,
             xsts |->
                IF takeXsts
                THEN Some(XstsToken(Unwrap(xsts).token,
                          Unwrap(from_timestamp_secs(Unwrap(Unwrap(xsts).exp))),
                          Unwrap(Unwrap(Unwrap(xsts).extra).uhs)))
                ELSE None,
             access_token |->
                IF takeYgg
                THEN Some(TokenWithExpiry(Unwrap(ygg).token,
                          Unwrap(from_timestamp_secs(Unwrap(Unwrap(ygg).exp)))))
                ELSE None],
         non_default_creds |->
            takeRefresh \/ takeMsa \/ takeXbl \/ takeXsts \/ takeYgg]

InitImport ==
    /\ credentials = DefaultCredentials
    /\ now = 0
    /\ cancel = FALSE
    /\ pc = "start"
    /\ last_auth_stage = None
    /\ allow_backwards = TRUE
    /\ stage = None
    /\ call = None
    /\ result = Running
    /\ progress = [count |-> 0, total |-> 0]
    /\ hist = <<>>
    /\ calls = <<>>
    /\ exchange = None
    /\ resolved = <<>>
    /\ imported = None
    /\ written_credentials = None
    /\ lapsed = FALSE
    /\ LockfileUnused
    /\ NotifySignalUnused

\* Lines 421-480: one MSA account of accounts.json.  `written` tells whether
\* line 479 wrote the record to the secret storage.
ImportAccount ==
    /\ imported = None
    /\ \E account \in MultiMCAccounts :
         LET r == import_credentials(account, now) IN
         /\ credentials' = r.credentials
         /\ imported' = Some([at |-> now,
                              account |-> account,
                              written |-> r.non_default_creds])
         /\ written_credentials' =
                IF r.non_default_creds THEN Some(r.credentials) ELSE None
    /\ UNCHANGED <<now, resolved, loginVars, lockVars, notifyVars>>

\* Line 420: the loop goes to the next account.
ImportNext ==
    /\ imported # None
    /\ imported' = None
    /\ credentials' = DefaultCredentials
    /\ written_credentials' = None
    /\ UNCHANGED <<now, resolved, loginVars, lockVars, notifyVars>>

\* Time passes between two accounts.
ImportTick ==
    /\ imported = None
    /\ now < MaxTime
    /\ now' = now + 1
    /\ UNCHANGED <<credentials, resolved, imported, written_credentials, loginVars, lockVars, notifyVars>>

NextImport == ImportAccount \/ ImportNext \/ ImportTick

SpecImport == InitImport /\ [][NextImport]_vars

\* ------------------------------------------------------------------------
\* SpecLock: Lockfile::create, Lockfile::try_create and the drop of a
\* Lockfile, called by MaxTasks tasks of one process; another process locks
\* and unlocks the same files.

\* BackendState::login is not running.
LoginUnused ==
    /\ credentials = DefaultCredentials
    /\ now = 0
    /\ cancel = FALSE
    /\ pc = "start"
    /\ last_auth_stage = None
    /\ allow_backwards = TRUE
    /\ stage = None
    /\ call = None
    /\ result = Running
    /\ progress = [count |-> 0, total |-> 0]
    /\ hist = <<>>
    /\ calls = <<>>
    /\ exchange = None
    /\ resolved = <<>>
    /\ imported = None
    /\ written_credentials = None
    /\ lapsed = FALSE

\* Another process may hold the lock of a file when this one starts.
InitLock ==
    /\ LoginUnused
    /\ NotifySignalUnused
    /\ LOCKED = [p \in Paths |-> None]
    /\ lock_call = [t \in Tasks |-> IdleCall]
    /\ file_lock \in [Paths -> {"free", "foreign"}]

\* What a step of lockfile.rs leaves alone.
LockFrame ==
    UNCHANGED <<credentials, now, resolved, imported, written_credentials, loginVars,
                notifyVars>>

\* Lines 14-23: the map after get_path_semaphore(path); the entry's
\* semaphore is returned.
get_path_semaphore(map, path) ==
    IF map[path] = None
    THEN [map EXCEPT ![path] = Some(Semaphore_new(1))]
    ELSE map

\* The drop of task t's OwnedSemaphorePermit, t going on as `after`: the
\* permit goes to the first task waiting in acquire_owned, or back to the
\* semaphore.
release_permit(t, after) ==
    LET p == lock_call[t].path
        sem == Unwrap(LOCKED[p])
    IN  IF sem.waiters = <<>>
        THEN /\ LOCKED' = [LOCKED EXCEPT ![p] = Some([sem EXCEPT !.permits = sem.permits + 1])]
             /\ lock_call' = [lock_call EXCEPT ![t] = after]
        ELSE /\ LOCKED' = [LOCKED EXCEPT ![p] = Some([sem EXCEPT !.waiters = Tail(sem.waiters)])]
             /\ lock_call' = [lock_call EXCEPT ![t] = after,
                                               ![Head(sem.waiters)].at = "permit"]

\* Mutant of ReturnErr: the permit is leaked (mem::forget) when the call
\* fails.
ReturnErr_forgets(t) ==
    /\ lock_call' = [lock_call EXCEPT ![t] = [IdleCall EXCEPT !.ret = "Err"]]
    /\ UNCHANGED LOCKED

\* `?` and `return Err(err)` of lines 37, 41, 46, 64 and 68: the call
\* returns the I/O error; the handle and the permit, both locals, are
\* dropped.
ReturnErr(t) == release_permit(t, [IdleCall EXCEPT !.ret = "Err"])

\* Lines 50-53 and 74-77: the file is locked through task t's handle and the
\* Lockfile is returned.
ReturnLockfile(t) ==
    /\ file_lock' = [file_lock EXCEPT ![lock_call[t].path] = "handle"]
    /\ lock_call' = [lock_call EXCEPT ![t].at = "held", ![t].ret = "Lockfile"]
    /\ UNCHANGED LOCKED

\* Lines 33 and 58: a call of create or try_create begins with
\* get_path_semaphore.
lockfile_call(t, op, path) ==
    /\ lock_call[t].at = "idle"
    /\ LOCKED' = get_path_semaphore(LOCKED, path)
    /\ lock_call' = [lock_call EXCEPT ![t] =
            [op |-> op, path |-> path, at |-> "semaphore", ret |-> "-"]]
    /\ UNCHANGED file_lock
    /\ LockFrame

\* Line 33.
create(t, path) == lockfile_call(t, "create", path)

\* Line 58.
try_create(t, path) == lockfile_call(t, "try_create", path)

\* Line 35: semaphore.acquire_owned().await takes the permit, or queues the
\* task until a permit is handed to it.
create_acquire(t) ==
    /\ lock_call[t].op = "create"
    /\ lock_call[t].at = "semaphore"
    /\ LET p == lock_call[t].path
           sem == Unwrap(LOCKED[p])
       IN  IF sem.permits > 0
           THEN /\ LOCKED' = [LOCKED EXCEPT ![p] = Some([sem EXCEPT !.permits = sem.permits - 1])]
                /\ lock_call' = [lock_call EXCEPT ![t].at = "permit"]
           ELSE /\ LOCKED' = [LOCKED EXCEPT ![p] = Some([sem EXCEPT !.waiters = Append(sem.waiters, t)])]
                /\ lock_call' = [lock_call EXCEPT ![t].at = "waiting"]
    /\ UNCHANGED file_lock
    /\ LockFrame

\* Lines 37-53: open_file and handle.try_lock(); when the file is locked
\* through another handle (WouldBlock) the task goes on to handle.lock() on a
\* blocking thread.
create_open(t) ==
    /\ lock_call[t].op = "create"
    /\ lock_call[t].at = "permit"
    /\ \/ ReturnErr(t) /\ UNCHANGED file_lock
       \/ IF file_lock[lock_call[t].path] = "free"
          THEN ReturnLockfile(t)
          ELSE /\ lock_call' = [lock_call EXCEPT ![t].at = "blocking"]
               /\ UNCHANGED <<LOCKED, file_lock>>
    /\ LockFrame

\* Lines 43-46: handle.lock() returns once the file is free, or fails.
create_blocked(t) ==
    /\ lock_call[t].op = "create"
    /\ lock_call[t].at = "blocking"
    /\ \/ ReturnErr(t) /\ UNCHANGED file_lock
       \/ file_lock[lock_call[t].path] = "free" /\ ReturnLockfile(t)
    /\ LockFrame

\* Lines 60-62: semaphore.try_acquire_owned() takes the permit, or
\* try_create returns Ok(None).
try_create_acquire(t) ==
    /\ lock_call[t].op = "try_create"
    /\ lock_call[t].at = "semaphore"
    /\ LET p == lock_call[t].path
           sem == Unwrap(LOCKED[p])
       IN  IF sem.permits > 0
           THEN /\ LOCKED' = [LOCKED EXCEPT ![p] = Some([sem EXCEPT !.permits = sem.permits - 1])]
                /\ lock_call' = [lock_call EXCEPT ![t].at = "permit"]
           ELSE /\ lock_call' = [lock_call EXCEPT ![t] = [IdleCall EXCEPT !.ret = "None"]]
                /\ UNCHANGED LOCKED
    /\ UNCHANGED file_lock
    /\ LockFrame

\* Lines 64-77: open_file and handle.try_lock(); WouldBlock returns Ok(None)
\* and drops the handle and the permit.
try_create_open(t) ==
    /\ lock_call[t].op = "try_create"
    /\ lock_call[t].at = "permit"
    /\ \/ ReturnErr(t) /\ UNCHANGED file_lock
       \/ IF file_lock[lock_call[t].path] = "free"
          THEN ReturnLockfile(t)
          ELSE /\ release_permit(t, [IdleCall EXCEPT !.ret = "None"])
               /\ UNCHANGED file_lock
    /\ LockFrame

\* Lines 7-10: the drop of a Lockfile drops its fields in the order of their
\* declaration; first _handle: the file is closed and its lock released.
drop_handle(t) ==
    /\ lock_call[t].at = "held"
    /\ file_lock' = [file_lock EXCEPT ![lock_call[t].path] = "free"]
    /\ lock_call' = [lock_call EXCEPT ![t].at = "dropping"]
    /\ UNCHANGED LOCKED
    /\ LockFrame

\* Lines 7-10: then _permit.
drop_permit(t) ==
    /\ lock_call[t].at = "dropping"
    /\ release_permit(t, IdleCall)
    /\ UNCHANGED file_lock
    /\ LockFrame

\* Another process locks or unlocks the file (what try_lock and lock of
\* lines 39 and 44 contend with).
ForeignLock(path) ==
    /\ file_lock[path] \in {"free", "foreign"}
    /\ file_lock' = [file_lock EXCEPT ![path] = IF @ = "free" THEN "foreign" ELSE "free"]
    /\ UNCHANGED <<LOCKED, lock_call>>
    /\ LockFrame

NextLock ==
    \/ \E t \in Tasks, path \in Paths : create(t, path)
    \/ \E t \in Tasks, path \in Paths : try_create(t, path)
    \/ \E t \in Tasks : create_acquire(t)
    \/ \E t \in Tasks : create_open(t)
    \/ \E t \in Tasks : create_blocked(t)
    \/ \E t \in Tasks : try_create_acquire(t)
    \/ \E t \in Tasks : try_create_open(t)
    \/ \E t \in Tasks : drop_handle(t)
    \/ \E t \in Tasks : drop_permit(t)
    \/ \E path \in Paths : ForeignLock(path)

SpecLock == InitLock /\ [][NextLock]_vars

\* ------------------------------------------------------------------------
\* SpecNotify: one NotifySignal, plain (its clones call notify) or owned by
\* a KeepAliveNotifySignal (whose drop is the only call of notify), and the
\* tasks that await it.

InitNotify ==
    /\ LoginUnused
    /\ LockfileUnused
    /\ value = NotifySignal_new.value
    /\ notify = NotifySignal_new.notify
    /\ notifier = [n \in Notifiers |-> "idle"]
    /\ awaiter = [a \in Awaiters |-> IdleAwaiter]
    /\ keep_alive \in {None, Some("alive")}

\* What a step of notify_signal.rs leaves alone.
NotifyFrame ==
    UNCHANGED <<credentials, now, resolved, imported, written_credentials, loginVars,
                lockVars>>

\* Mutant of notify_swap: the test of the swapped value is inverted
\* (`if self.0.value.swap(..)`).
notify_swap_inverted(n) ==
    /\ notifier[n] = "idle"
    /\ value' = TRUE
    /\ notifier' = [notifier EXCEPT ![n] = IF value THEN "add_permits" ELSE "idle"]

\* Line 23: thread n enters notify; value.swap(true) returns the old value,
\* and the thread goes on to add_permits when that was false.
notify_swap(n) ==
    /\ notifier[n] = "idle"
    /\ value' = TRUE
    /\ notifier' = [notifier EXCEPT ![n] = IF ~value THEN "add_permits" ELSE "idle"]

\* Lines 22-23: NotifySignal::notify called on a clone of a plain signal.
NotifySignal_notify(n) ==
    /\ keep_alive = None
    /\ notify_swap(n)
    /\ UNCHANGED <<notify, awaiter, keep_alive>>
    /\ NotifyFrame

\* Lines 48-50 and 57-61: the KeepAliveNotifySignal is dropped
\* (KeepAliveNotifySignal::notify does nothing else) by thread n: its drop
\* calls notify on the signal it owns.
KeepAliveNotifySignal_drop(n) ==
    /\ keep_alive = Some("alive")
    /\ keep_alive' = Some("dropped")
    /\ notify_swap(n)
    /\ UNCHANGED <<notify, awaiter>>
    /\ NotifyFrame

\* Line 24: notify.add_permits(Semaphore::MAX_PERMITS).
notify_add_permits(n) ==
    /\ notifier[n] = "add_permits"
    /\ notify' = notify + MAX_PERMITS
    /\ notifier' = [notifier EXCEPT ![n] = "idle"]
    /\ UNCHANGED <<value, awaiter, keep_alive>>
    /\ NotifyFrame

\* Lines 28-30.
is_notified == value

\* Lines 32-36 (and 67-69, through a handle): task a calls
\* await_notification; it returns at once when is_notified(), and goes on to
\* notify.acquire() otherwise.
await_notification(a) ==
    /\ awaiter[a].at = "idle"
    /\ awaiter[a].calls < MaxAwaitCalls
    /\ awaiter' = [awaiter EXCEPT ![a] =
            [at |-> IF is_notified THEN "idle" ELSE "acquire",
             calls |-> @.calls + 1,
             waited |-> ~is_notified]]
    /\ UNCHANGED <<value, notify, notifier, keep_alive>>
    /\ NotifyFrame

\* Line 36: `let _ = self.0.notify.acquire().await`: a permit is taken and,
\* bound to `_`, dropped at once; the call returns.
await_acquire(a) ==
    /\ awaiter[a].at = "acquire"
    /\ notify > 0
    /\ notify' = (notify - 1) + 1
    /\ awaiter' = [awaiter EXCEPT ![a].at = "idle"]
    /\ UNCHANGED <<value, notifier, keep_alive>>
    /\ NotifyFrame

NextNotify ==
    \/ \E n \in Notifiers : NotifySignal_notify(n)
    \/ \E n \in Notifiers : KeepAliveNotifySignal_drop(n)
    \/ \E n \in Notifiers : notify_add_permits(n)
    \/ \E a \in Awaiters : await_notification(a)
    \/ \E a \in Awaiters : await_acquire(a)

\* A thread inside notify runs on to its add_permits, and a task whose
\* acquire can return is polled; nothing obliges anybody to call notify or
\* await_notification.
SpecNotify ==
    /\ InitNotify
    /\ [][NextNotify]_vars
    /\ \A n \in Notifiers : WF_vars(notify_add_permits(n))
    /\ \A a \in Awaiters : WF_vars(await_acquire(a))

\* ------------------------------------------------------------------------
\* Claims about AccountCredentials::stage (checked under SpecResolve).

\* The token fields, and the stage each one lets the flow resume at.
TokenFields == {"msa_access", "xbl", "xsts", "access_token"}
FieldStage(f) ==
    CASE f = "msa_access" -> MsaAccess
      [] f = "xbl" -> XboxLive
      [] f = "xsts" -> XboxSecure
      [] f = "access_token" -> AccessToken

\* The fields of record r holding a token whose expiry is strictly after t.
LiveFields(r, t) == {f \in TokenFields : r[f] # <<>> /\ t < r[f][1].expiry}

\* The payload the claim expects with stage s resolved from record r.
ExpectedData(r, s) ==
    CASE s = Initial -> [stage |-> s]
      [] s = MsaRefresh -> [stage |-> s, token |-> r.msa_refresh[1]]
      [] s = XboxSecure -> [stage |-> s, xsts |-> r.xsts[1].token,
                            userhash |-> r.xsts[1].userhash]
      [] s = MsaAccess -> [stage |-> s, token |-> r.msa_access[1].token]
      [] s = XboxLive -> [stage |-> s, token |-> r.xbl[1].token]
      [] s = AccessToken -> [stage |-> s, token |-> r.access_token[1].token]

\* C1: stage() returns the stage (with its payload) of the deepest token
\* field, in the order access_token, xsts, xbl, msa_access, that is present
\* with now strictly before its expiry; with no such field it returns
\* MsaRefresh when a refresh token is present and Initial otherwise; a call
\* that finds the access token absent or expired leaves access_token absent.
C1_ResolveDeepestLive ==
    \A i \in 1..Len(resolved) :
        LET e == resolved[i]
            live == LiveFields(e.pre, e.at)
            want == IF live # {}
                    THEN CHOOSE s \in {FieldStage(f) : f \in live} :
                            \A f \in live : FieldStage(f) <= s
                    ELSE IF e.pre.msa_refresh # <<>> THEN MsaRefresh ELSE Initial
        IN  /\ e.ret = ExpectedData(e.pre, want)
            /\ ("access_token" \notin live => e.post.access_token = <<>>)

\* C1 witness: a record holding only an access token resolves to
\* AccessToken before the expiry and, at the expiry instant, to Initial
\* with access_token absent.
C1_Witness ==
    /\ Len(resolved) = 2
    /\ resolved[1].pre = [DefaultCredentials EXCEPT
                             !.access_token = <<[token |-> -6, expiry |-> 1]>>]
    /\ resolved[1].at = 0
    /\ resolved[1].ret = [stage |-> AccessToken, token |-> -6]
    /\ resolved[2].at = 1
    /\ resolved[2].ret = [stage |-> Initial]
    /\ credentials.access_token = <<>>

\* C2: two stage() calls at the same instant with nothing in between return
\* the same stage with the same payload, and the second call changes no
\* field of the record.
C2_ResolveIdempotent ==
    \A i \in 1..(Len(resolved) - 1) :
        resolved[i + 1].at = resolved[i].at =>
            /\ resolved[i + 1].ret = resolved[i].ret
            /\ resolved[i + 1].post = resolved[i].post

\* C2 witness: the first of two calls at one instant pruned a field and
\* returned a token-carrying stage; the second call has run.
C2_Witness ==
    /\ Len(resolved) = 2
    /\ resolved[1].at = resolved[2].at
    /\ resolved[1].pre # resolved[1].post
    /\ resolved[1].ret.stage = XboxLive

\* C3: when stage() returns stage S, every token field of a stage deeper
\* than S is absent afterwards, the field of S and every shallower token
\* field are as they were before the call (expired or not), and the refresh
\* token and the forced client id are as they were.
C3_ResolveFrame ==
    \A i \in 1..Len(resolved) :
        LET e == resolved[i] IN
        /\ \A f \in TokenFields :
                IF FieldStage(f) > e.ret.stage
                THEN e.post[f] = <<>>
                ELSE e.post[f] = e.pre[f]
        /\ e.post.msa_refresh = e.pre.msa_refresh
        /\ e.post.msa_refresh_force_client_id = e.pre.msa_refresh_force_client_id

\* C3 witness: a call returned XboxLive, pruned a deeper field and left an
\* already expired msa_access token in place.
C3_Witness ==
    \E i \in 1..Len(resolved) :
        LET e == resolved[i] IN
        /\ e.ret.stage = XboxLive
        /\ e.pre.xsts # <<>>
        /\ e.post.xsts = <<>>
        /\ e.post.msa_access # <<>>
        /\ e.post.msa_access[1].expiry <= e.at
        /\ e.post.msa_refresh_force_client_id # <<>>


\* ------------------------------------------------------------------------
\* Claims about BackendState::login (checked under Spec).

\* Some iteration among the first n resolved a stage strictly greater than
\* the iteration before it.
AdvancedBy(n) == \E i \in 2..n : hist[i] > hist[i - 1]

\* The iteration that resolved hist[j] ended login with `error` before any
\* exchange call: it is the last iteration, and one call was begun in each
\* iteration before it and none in it.
EndedAtCheck(j, error) ==
    /\ j = Len(hist)
    /\ pc = "done"
    /\ result = [tag |-> "Err", error |-> error]
    /\ Len(calls) = j - 1

\* C4: once a resolved stage has been strictly greater than the previous
\* iteration's, an iteration whose resolved stage is strictly less than the
\* previous iteration's ends the attempt with LoginStageErrorBackwards in
\* that iteration, before any exchange call.
C4_BackwardsAfterAdvanceFails ==
    \A j \in 2..Len(hist) :
        (hist[j] < hist[j - 1] /\ AdvancedBy(j - 1))
            => EndedAtCheck(j, "LoginStageErrorBackwards")

\* C4 witness: the resolved stages Initial, MsaRefresh, MsaAccess, MsaRefresh,
\* ended by LoginStageErrorBackwards at the fourth resolution.
C4_Witness ==
    /\ hist = <<Initial, MsaRefresh, MsaAccess, MsaRefresh>>
    /\ result = [tag |-> "Err", error |-> "LoginStageErrorBackwards"]
    /\ Len(calls) = 3

\* C5: an iteration whose resolved stage equals the previous iteration's
\* ends the attempt with LoginStageErrorDidntChange in that iteration, before
\* any exchange call, whether or not backwards steps are still allowed.
C5_NoProgressFails ==
    \A j \in 2..Len(hist) :
        hist[j] = hist[j - 1] => EndedAtCheck(j, "LoginStageErrorDidntChange")

\* C5 witness: the same stage resolved twice in a row while backwards steps
\* were still allowed.
C5_Witness ==
    /\ Len(hist) = 2
    /\ hist[2] = hist[1]
    /\ allow_backwards
    /\ result = [tag |-> "Err", error |-> "LoginStageErrorDidntChange"]

\* C6: allow_backwards is true when the attempt starts, is false from the
\* first iteration whose resolved stage is strictly greater than the previous
\* iteration's, and is false in every state after that.
C6_AllowBackwardsLatch ==
    pc # "start" => (allow_backwards <=> ~AdvancedBy(Len(hist)))

\* C6 witness: after the advance the flow went on for two more iterations,
\* the last of them resolving a lower stage.
C6_Witness ==
    /\ ~allow_backwards
    /\ \E i \in 2..Len(hist) :
         /\ hist[i] > hist[i - 1]
         /\ Len(hist) >= i + 2
         /\ hist[Len(hist)] < hist[Len(hist) - 1]

\* The stage every later resolution of record r finds, if it is the same at
\* every instant.
ResolvesTo(r, s) == \A t \in Times : credentials_stage(r, t).ret.stage = s

\* C7: when refresh_msa returns Ok(None) or an error that is no connection
\* error while allow_backwards is true, login does not return; the refresh
\* token and the forced client id are None afterwards and the next iteration
\* resolves Initial and passes the monotonicity check.
C7_RefreshFallback ==
    (/\ IsSome(exchange)
     /\ Unwrap(exchange).stage = MsaRefresh
     /\ Unwrap(exchange).allow
     /\ Unwrap(exchange).outcome \in {"none", "OtherError"})
    => LET x == Unwrap(exchange) IN
       /\ ~x.returned
       /\ x.post.msa_refresh = <<>>
       /\ x.post.msa_refresh_force_client_id = <<>>
       /\ ResolvesTo(x.post, Initial)
       /\ Len(hist) > x.index =>
            /\ hist[x.index + 1] = Initial
            /\ result.tag = "Err" =>
                 result.error \notin {"LoginStageErrorBackwards",
                                      "LoginStageErrorDidntChange"}

\* C7 witness: a refresh token imported with a forced client id was rejected
\* with Ok(None) in the first iteration, and the second iteration has
\* resolved Initial and waits for the redirect.
C7_Witness ==
    /\ IsSome(exchange)
    /\ Unwrap(exchange).stage = MsaRefresh
    /\ Unwrap(exchange).outcome = "none"
    /\ Unwrap(exchange).pre.msa_refresh_force_client_id # <<>>
    /\ hist = <<MsaRefresh, Initial>>
    /\ pc = "redirect"

\* The error login returns for the outcome of an exchange call.
ErrorOf(what) == IF what = "none" THEN "InvalidGrant" ELSE what

\* The exchange call x ended the attempt with its error: login returned it,
\* the arm changed no field of the record and no later call was begun.
FatalExchange(x) ==
    /\ x.returned
    /\ pc = "done"
    /\ result = [tag |-> "Err", error |-> ErrorOf(x.outcome)]
    /\ x.post = x.pre
    /\ credentials = x.pre
    /\ Len(calls) = x.index

\* C8: with allow_backwards false, a failure of the exchange call of any
\* stage ends the attempt with that error (Ok(None) from refresh_msa with
\* InvalidGrant); no field of the record is cleared and no further exchange
\* call is made.
C8_FailureAfterAdvanceFatal ==
    (/\ IsSome(exchange)
     /\ ~Unwrap(exchange).allow
     /\ Unwrap(exchange).outcome # "ok")
    => FatalExchange(Unwrap(exchange))

\* C8 witness: after an advance, refresh_msa returned Ok(None) and login
\* returned InvalidGrant.
C8_Witness ==
    /\ IsSome(exchange)
    /\ ~Unwrap(exchange).allow
    /\ Unwrap(exchange).stage = MsaRefresh
    /\ Unwrap(exchange).outcome = "none"
    /\ result = [tag |-> "Err", error |-> "InvalidGrant"]

\* The attempt advanced from MsaRefresh to MsaAccess before exchange call k.
AdvancedRefreshToAccess(k) ==
    \E i \in 2..k : i <= Len(hist) /\ hist[i - 1] = MsaRefresh /\ hist[i] = MsaAccess

\* authenticate_xbox failed with an error that is no connection error after
\* the attempt had advanced from MsaRefresh to MsaAccess.
XboxFailedAfterAdvance ==
    /\ IsSome(exchange)
    /\ Unwrap(exchange).stage = MsaAccess
    /\ Unwrap(exchange).outcome = "OtherError"
    /\ AdvancedRefreshToAccess(Unwrap(exchange).index)

\* C9 as stated: such a failure clears msa_access and the attempt goes on.
C9_Original_ClearAndContinue ==
    XboxFailedAfterAdvance =>
        /\ Unwrap(exchange).post.msa_access = <<>>
        /\ ~Unwrap(exchange).returned

\* C9 amended: after the attempt has advanced from MsaRefresh to MsaAccess, a
\* failure of authenticate_xbox that is no connection error ends the attempt
\* with that error; msa_access is not cleared and no further exchange call
\* (no retry through MsaRefresh) is made.
C9_XboxFailureAfterAdvanceFatal ==
    XboxFailedAfterAdvance =>
        /\ FatalExchange(Unwrap(exchange))
        /\ Unwrap(exchange).post.msa_access # <<>>

\* C9 witness: the iteration right after the advance from MsaRefresh to
\* MsaAccess called authenticate_xbox, which failed, and login has returned.
C9_Witness ==
    /\ XboxFailedAfterAdvance
    /\ hist = <<MsaRefresh, MsaAccess>>
    /\ pc = "done"

\* C10: a connection error of the exchange call of any stage ends the attempt
\* with that error, also while allow_backwards is true, and the arm leaves
\* the record as it found it.
C10_ConnectionErrorFatal ==
    (IsSome(exchange) /\ Unwrap(exchange).outcome = "ConnectionError")
    => FatalExchange(Unwrap(exchange))

\* C10 witness: obtain_xsts failed with a connection error while backwards
\* steps were allowed; the xbl token used for the call is still in the record.
C10_Witness ==
    /\ IsSome(exchange)
    /\ Unwrap(exchange).outcome = "ConnectionError"
    /\ Unwrap(exchange).allow
    /\ Unwrap(exchange).stage = XboxLive
    /\ credentials.xbl # <<>>
    /\ pc = "done"

\* C11: an error of finish_authorization, of either class and whatever
\* allow_backwards is, ends the attempt with that error, and a failure of the
\* redirect listener ends it with the listener's error; in both cases no
\* field of the record (msa_access, the refresh token and the forced client
\* id among them) is changed and no further call is made.
C11_InitialErrorsFatal ==
    /\ []((/\ IsSome(exchange)
           /\ Unwrap(exchange).stage = Initial
           /\ Unwrap(exchange).outcome # "ok")
          => FatalExchange(Unwrap(exchange)))
    /\ [](result = [tag |-> "Err", error |-> "ServeRedirectError"] => pc = "done")
    /\ [][(pc = "redirect" /\ result' = [tag |-> "Err", error |-> "ServeRedirectError"])
          => (/\ credentials' = credentials
              /\ calls' = calls
              /\ exchange' = exchange)]_vars

\* C11 witness: after an advance (allow_backwards false) the Initial arm ran,
\* finish_authorization failed with an error that is no connection error, and
\* login returned it with the forced client id still in the record.
C11_Witness ==
    /\ IsSome(exchange)
    /\ Unwrap(exchange).stage = Initial
    /\ Unwrap(exchange).outcome = "OtherError"
    /\ ~Unwrap(exchange).allow
    /\ credentials.msa_refresh_force_client_id # <<>>
    /\ result = [tag |-> "Err", error |-> "OtherError"]

\* The run is no longer the one C12 speaks of: cancellation was requested,
\* the redirect listener or an exchange call failed, or the record holds a
\* token that expires before the clock's last instant.
Abandoned ==
    \/ cancel
    \/ result = [tag |-> "Err", error |-> "ServeRedirectError"]
    \/ IsSome(exchange) /\ Unwrap(exchange).outcome # "ok"
    \/ \E f \in TokenFields :
         credentials[f] # <<>> /\ credentials[f][1].expiry <= MaxTime

\* login returned success after exactly the exchange calls of Initial,
\* MsaAccess, XboxLive, XboxSecure and AccessToken, in that order; the record
\* holds the access token returned and the tracker shows 7 of 7.
HappyEnd ==
    /\ pc = "done"
    /\ result.tag = "Ok"
    /\ calls = <<Initial, MsaAccess, XboxLive, XboxSecure, AccessToken>>
    /\ credentials.access_token # <<>>
    /\ credentials.access_token[1].token = result.token
    /\ progress = [count |-> 7, total |-> 7]

\* C12: an attempt that starts from the empty record ends in HappyEnd, unless
\* cancellation is requested, a call fails, an issued token expires within
\* the run, or the redirect never arrives.
C12_HappyPath ==
    credentials = DefaultCredentials
        => (<>(Abandoned \/ HappyEnd) \/ <>[](pc = "redirect"))

\* C12 witness: login returned success with no cancellation, having resolved
\* Initial, MsaAccess, XboxLive, XboxSecure and AccessToken in turn, every
\* token it was issued outliving the run.
C12_Witness ==
    /\ HappyEnd
    /\ ~cancel
    /\ hist = <<Initial, MsaAccess, XboxLive, XboxSecure, AccessToken>>
    /\ \A f \in TokenFields :
         credentials[f] # <<>> /\ credentials[f][1].expiry = MaxTime + 1

\* C13: an iteration that begins after cancellation has been requested ends
\* the attempt with CancelledByUser: it resolves no stage, reports no
\* progress, begins no exchange call and changes no field of the record.
C13_CancelAtLoopTop ==
    [][(pc = "loop" /\ cancel /\ pc' # "loop")
       => (/\ pc' = "done"
           /\ result' = [tag |-> "Err", error |-> "CancelledByUser"]
           /\ hist' = hist
           /\ stage' = stage
           /\ progress' = progress
           /\ calls' = calls
           /\ call' = call
           /\ credentials' = credentials)]_vars

\* C13 witness: two iterations ran their exchange calls, cancellation was
\* requested after the second had returned, and the third iteration returned
\* CancelledByUser with the record as the second left it.
C13_Witness ==
    /\ result = [tag |-> "Err", error |-> "CancelledByUser"]
    /\ call = <<>>
    /\ Len(hist) = 2
    /\ Len(calls) = 2
    /\ IsSome(exchange)
    /\ ~Unwrap(exchange).cancelled
    /\ credentials = Unwrap(exchange).post

\* C14 as stated: an exchange call that returns after cancellation was
\* requested writes nothing to the record, and an attempt in which
\* cancellation was requested returns CancelledByUser.
C14_Original_NoWriteAfterCancel ==
    /\ (IsSome(exchange) /\ Unwrap(exchange).cancelled)
       => Unwrap(exchange).post = Unwrap(exchange).pre
    /\ (cancel /\ pc = "done")
       => result = [tag |-> "Err", error |-> "CancelledByUser"]

\* C14 amended: cancellation takes effect where login looks at it, at the
\* top of an iteration and in the redirect wait.  An exchange call in flight
\* when cancellation is requested runs to its end and its arm acts on the
\* result; when that arm goes on to the next iteration, nothing follows but
\* the return of CancelledByUser: no stage is resolved, no exchange call is
\* begun and the record stays as the arm left it.
C14_CancelTakesEffectAtLoopTop ==
    (/\ IsSome(exchange)
     /\ Unwrap(exchange).cancelled
     /\ ~Unwrap(exchange).returned)
    => LET x == Unwrap(exchange) IN
       /\ credentials = x.post
       /\ Len(calls) = x.index
       /\ Len(hist) = x.index
       /\ \/ pc = "loop"
          \/ pc = "done" /\ result = [tag |-> "Err", error |-> "CancelledByUser"]

\* C14 witness: cancellation was requested while authenticate_xbox was in
\* flight; the call succeeded, its token was written to xbl, and the next
\* iteration returned CancelledByUser.
C14_Witness ==
    /\ IsSome(exchange)
    /\ Unwrap(exchange).cancelled
    /\ Unwrap(exchange).stage = MsaAccess
    /\ Unwrap(exchange).outcome = "ok"
    /\ Unwrap(exchange).post.xbl # Unwrap(exchange).pre.xbl
    /\ credentials = Unwrap(exchange).post
    /\ result = [tag |-> "Err", error |-> "CancelledByUser"]

\* The redirect wait ended through the listener: finish_authorization was
\* called or the listener's error was returned.
RedirectArrived ==
    \/ pc = "exchange" /\ Unwrap(call).stage = Initial
    \/ result = [tag |-> "Err", error |-> "ServeRedirectError"]

\* The redirect wait ended through the cancellation branch.
RedirectWaitCancelled ==
    /\ pc = "done"
    /\ result = [tag |-> "Err", error |-> "CancelledByUser"]
    /\ call = <<[stage |-> Initial]>>

\* C15: once cancellation is requested while login waits for the redirect,
\* the wait ends, and it ends with CancelledByUser unless the redirect has
\* arrived; the step that returns CancelledByUser from the wait begins no
\* call (finish_authorization is not called in that iteration) and changes
\* no field of the record.
C15_RedirectWaitCancellable ==
    /\ (pc = "redirect" /\ cancel) ~> (RedirectWaitCancelled \/ RedirectArrived)
    /\ [](RedirectWaitCancelled => Len(calls) = Len(hist) - 1)
    /\ [][(pc = "redirect" /\ pc' = "done"
                /\ result' = [tag |-> "Err", error |-> "CancelledByUser"])
          => (/\ credentials' = credentials
              /\ calls' = calls
              /\ exchange' = exchange)]_vars

\* C15 witness: the first iteration resolved Initial on a record carrying a
\* forced client id, cancellation was requested during the wait, and login
\* returned CancelledByUser with no call made and the forced client id kept.
C15_Witness ==
    /\ RedirectWaitCancelled
    /\ cancel
    /\ hist = <<Initial>>
    /\ calls = <<>>
    /\ exchange = <<>>
    /\ credentials.msa_refresh_force_client_id # <<>>

\* C16: from the start of the loop on the tracker's total is 7; while an
\* exchange call is in flight the count last reported is the ordinal of the
\* stage being executed plus one; and the count is 7 only once
\* get_minecraft_profile has succeeded and login has returned success.
C16_ProgressMatchesExchange ==
    /\ pc # "start" => progress.total = AUTH_STAGE_COUNT + 1
    /\ pc = "exchange" => progress.count = Unwrap(call).stage + 1
    /\ progress.count = AUTH_STAGE_COUNT + 1
       => (/\ result.tag = "Ok"
           /\ IsSome(exchange)
           /\ Unwrap(exchange).stage = AccessToken
           /\ Unwrap(exchange).outcome = "ok")

\* C17: when login has returned success, the last exchange call begun was
\* get_minecraft_profile and it succeeded; the token returned is the one the
\* stage() call of that iteration took from access_token, which had not
\* expired at that instant; and the record still holds that token.
C17_SuccessOnlyFromAccessToken ==
    result.tag = "Ok"
    => /\ pc = "done"
       /\ IsSome(exchange)
       /\ LET x == Unwrap(exchange) IN
          /\ x.stage = AccessToken
          /\ x.outcome = "ok"
          /\ x.returned
          /\ x.index = Len(calls)
          /\ calls[x.index] = AccessToken
          /\ x.pre.access_token = credentials.access_token
       /\ call = <<[stage |-> AccessToken, token |-> result.token]>>
       /\ credentials.access_token # <<>>
       /\ credentials.access_token[1].token = result.token
       /\ now < credentials.access_token[1].expiry

\* C17 witness: login returned, as its third exchange call succeeded, an
\* access token that authenticate_minecraft had issued in the same attempt.
C17_Witness ==
    /\ result.tag = "Ok"
    /\ Len(calls) = 3
    /\ calls[2] = XboxSecure
    /\ result.token = 2
    /\ credentials.access_token[1].token = 2

\* The stage of the deepest token field of record r that is present and
\* unexpired at instant t; MsaRefresh or Initial when there is none.
DeepestLiveStage(r, t) ==
    LET live == LiveFields(r, t) IN
    IF live # {}
    THEN CHOOSE s \in {FieldStage(f) : f \in live} : \A f \in live : FieldStage(f) <= s
    ELSE IF r.msa_refresh # <<>> THEN MsaRefresh ELSE Initial

\* C18: the arm entered in the first iteration is that of the deepest token
\* present and unexpired in the caller-supplied record (the record as it is
\* until the first iteration runs) at the instant of the dispatch, and the
\* two stage() calls of that iteration leave the field of that stage, every
\* shallower token field, the refresh token and the forced client id as the
\* caller supplied them; the first exchange call begun is that arm's; and
\* when the first call is get_minecraft_profile and it succeeds, login
\* returns success with that one call made and the record unchanged.
C18_FirstCallDeepestLive ==
    /\ [][(pc = "loop" /\ hist = <<>> /\ IsSome(call'))
          => LET s == Unwrap(call').stage IN
             /\ s = DeepestLiveStage(credentials, now')
             /\ \A f \in TokenFields :
                    FieldStage(f) <= s => credentials'[f] = credentials[f]
             /\ credentials'.msa_refresh = credentials.msa_refresh
             /\ credentials'.msa_refresh_force_client_id
                    = credentials.msa_refresh_force_client_id]_vars
    /\ [][(calls = <<>> /\ calls' # <<>>)
          => (Len(hist') = 1 /\ calls' = <<Unwrap(call').stage>>)]_vars
    /\ []((/\ IsSome(exchange)
           /\ Unwrap(exchange).index = 1
           /\ Unwrap(exchange).stage = AccessToken
           /\ Unwrap(exchange).outcome = "ok")
          => /\ result.tag = "Ok"
             /\ calls = <<AccessToken>>
             /\ hist = <<AccessToken>>
             /\ Unwrap(exchange).post = Unwrap(exchange).pre
             /\ credentials = Unwrap(exchange).pre)

\* C18 witness: an attempt on a record with a valid access token next to an
\* expired msa_access token returned success after one call, the expired
\* token still in the record.
C18_Witness ==
    /\ result.tag = "Ok"
    /\ calls = <<AccessToken>>
    /\ hist = <<AccessToken>>
    /\ credentials.msa_access # <<>>
    /\ credentials.msa_access[1].expiry <= now
    /\ credentials.xbl = <<>>

\* get_minecraft_profile failed with an error that is no connection error
\* while allow_backwards was true.
ProfileRejected ==
    /\ IsSome(exchange)
    /\ Unwrap(exchange).stage = AccessToken
    /\ Unwrap(exchange).outcome = "OtherError"
    /\ Unwrap(exchange).allow

\* C19 as stated: access_token is cleared, the attempt goes on, and the next
\* iteration resolves MsaRefresh or Initial.
C19_Original_FallsToRefreshOrInitial ==
    ProfileRejected
    => LET x == Unwrap(exchange) IN
       /\ ~x.returned
       /\ x.post.access_token = <<>>
       /\ Len(hist) > x.index => hist[x.index + 1] \in {MsaRefresh, Initial}

\* C19 amended: access_token is cleared (and no other field changed), the
\* attempt goes on, and the next iteration resolves a stage below
\* AccessToken: that of the deepest token of xsts, xbl and msa_access still
\* present and unexpired, MsaRefresh or Initial when there is none; that
\* iteration passes the monotonicity check.
C19_ProfileFallback ==
    ProfileRejected
    => LET x == Unwrap(exchange) IN
       /\ ~x.returned
       /\ x.post = [x.pre EXCEPT !.access_token = <<>>]
       /\ Len(hist) > x.index =>
            /\ hist[x.index + 1] < AccessToken
            /\ \E t \in Times : hist[x.index + 1] = DeepestLiveStage(x.post, t)
            /\ result.tag = "Err" =>
                 result.error \notin {"LoginStageErrorBackwards",
                                      "LoginStageErrorDidntChange"}

\* C19 witness: the record held a valid xsts token next to the access token
\* that get_minecraft_profile rejected, and the next iteration resolved
\* XboxSecure and called authenticate_minecraft.
C19_Witness ==
    /\ ProfileRejected
    /\ Len(hist) = Unwrap(exchange).index + 1
    /\ hist[Len(hist)] = XboxSecure
    /\ InFlight(XboxSecure)

\* ------------------------------------------------------------------------
\* Claims about import_accounts_from_multimc (checked under SpecImport).

\* C20: every token field of a record the importer writes to the secret
\* storage is absent or holds a token whose expiry is later than the instant
\* of the write.
C20_ImportedTokensValidAtWrite ==
    (IsSome(imported) /\ Unwrap(imported).written)
    => \A f \in TokenFields :
         credentials[f] = <<>> \/ Unwrap(imported).at < credentials[f][1].expiry

\* C21: once an exchange call of login has succeeded and written its token
\* to the record, the record as that hop left it has been passed to
\* write_credentials.
C21_PersistedAfterEachHop ==
    (/\ IsSome(exchange)
     /\ Unwrap(exchange).outcome = "ok"
     /\ ~Unwrap(exchange).returned)
    => written_credentials = <<Unwrap(exchange).post>>

\* The field whose token the exchange call of stage s consumes.
UsedField(s) ==
    CASE s = MsaRefresh -> "msa_refresh"
      [] s = MsaAccess -> "msa_access"
      [] s = XboxLive -> "xbl"
      [] s = XboxSecure -> "xsts"
      [] s = AccessToken -> "access_token"

\* C22: when the exchange call of MsaAccess, XboxLive, XboxSecure or
\* AccessToken fails with an error that is no connection error while
\* allow_backwards is true, the arm sets the field the call consumed to None,
\* changes no other field and goes on to the next iteration; and whenever an
\* exchange call of any stage fails and the loop goes on, the arm has set to
\* None a field that held a value.
C22_FallbackClearsUsedField ==
    IsSome(exchange)
    => LET x == Unwrap(exchange) IN
       /\ (x.outcome = "OtherError" /\ x.allow /\ x.stage >= MsaAccess)
          => /\ ~x.returned
             /\ x.pre[UsedField(x.stage)] # <<>>
             /\ x.post = [x.pre EXCEPT ![UsedField(x.stage)] = <<>>]
       /\ (x.outcome # "ok" /\ ~x.returned)
          => \E f \in DOMAIN x.pre : x.pre[f] # <<>> /\ x.post[f] = <<>>

\* C22 witness: obtain_xsts failed with an error that is no connection error
\* while backwards steps were allowed; xbl was cleared, the msa_access token
\* and the refresh token stayed, and the loop went on.
C22_Witness ==
    /\ IsSome(exchange)
    /\ Unwrap(exchange).stage = XboxLive
    /\ Unwrap(exchange).outcome = "OtherError"
    /\ Unwrap(exchange).allow
    /\ Unwrap(exchange).pre.xbl # <<>>
    /\ credentials.xbl = <<>>
    /\ credentials.msa_access # <<>>
    /\ credentials.msa_refresh # <<>>
    /\ pc = "loop"

\* C23: a successful finish_authorization sets the forced client id to None;
\* so does refresh_msa returning Ok(None) or an error that is no connection
\* error while allow_backwards is true; a successful refresh_msa was passed
\* the forced client id of the record and leaves it as it was; and the arms
\* of MsaAccess, XboxLive, XboxSecure and AccessToken leave it as it was,
\* whatever their call returns.
C23_ForcedClientId ==
    IsSome(exchange)
    => LET x == Unwrap(exchange)
           before == x.pre.msa_refresh_force_client_id
           after == x.post.msa_refresh_force_client_id
       IN  /\ (x.stage = Initial /\ x.outcome = "ok") => after = <<>>
           /\ (x.stage = MsaRefresh /\ x.allow /\ x.outcome \in {"none", "OtherError"})
              => after = <<>>
           /\ x.stage = MsaRefresh => x.client_id = before
           /\ (x.stage = MsaRefresh /\ x.outcome = "ok") => after = before
           /\ x.stage >= MsaAccess => after = before

\* C23 witness: refresh_msa was called with the client id an import had
\* forced, succeeded, and the record still forces that client id.
C23_Witness ==
    /\ IsSome(exchange)
    /\ Unwrap(exchange).stage = MsaRefresh
    /\ Unwrap(exchange).outcome = "ok"
    /\ Unwrap(exchange).client_id = <<"imported_client">>
    /\ credentials.msa_refresh_force_client_id = <<"imported_client">>
    /\ credentials.msa_access # <<>>

\* The stages the monotonicity check let through: every entry of hist but
\* the one the check refused.
Passed ==
    IF /\ pc = "done"
       /\ result \in {Err("LoginStageErrorBackwards"), Err("LoginStageErrorDidntChange")}
    THEN SubSeq(hist, 1, Len(hist) - 1)
    ELSE hist

\* h never repeats a stage in two successive entries and never steps down
\* after a step up.
DownThenUp(h) ==
    /\ \A i \in 1..(Len(h) - 1) : h[i] # h[i + 1]
    /\ \A i \in 1..(Len(h) - 2) : h[i] < h[i + 1] => h[i + 1] < h[i + 2]

\* The longest sequence of stages that goes down and then up.
MaxExchangeCalls == 2 * AUTH_STAGE_COUNT - 1

\* C24's safety part: the stages let through by the check go strictly down
\* and then strictly up, each iteration begins at most one exchange call, and
\* no more than 11 exchange calls are made.
C24_CallsBounded ==
    /\ DownThenUp(Passed)
    /\ Len(calls) <= Len(Passed)
    /\ Len(calls) <= MaxExchangeCalls

\* C24: every login attempt returns, unless it waits for a redirect that
\* never arrives and is never cancelled; and no attempt makes more than 11
\* exchange calls.
C24_Terminates ==
    /\ []C24_CallsBounded
    /\ (<>(pc = "done")) \/ (<>[](pc = "redirect" /\ ~cancel))

\* C24 witness: an attempt returned after 11 exchange calls, having gone
\* down from AccessToken to Initial and up again through every stage.
C24_Witness ==
    /\ pc = "done"
    /\ Len(calls) = MaxExchangeCalls
    /\ hist = <<AccessToken, XboxSecure, XboxLive, MsaAccess, MsaRefresh, Initial,
               MsaRefresh, MsaAccess, XboxLive, XboxSecure, AccessToken>>
    /\ result.tag = "Ok"

\* C25: while the redirect is awaited or an exchange call is in flight, the
\* arm that was entered is the one of the stage this iteration reported as
\* progress and compared with the previous iteration's.
C25_DispatchMatchesCheck ==
    pc \in {"redirect", "exchange"} => Unwrap(call).stage = Unwrap(stage)

\* C26: while the redirect is awaited or finish_authorization is in flight,
\* allow_backwards is true (no stage has been strictly advanced in this
\* attempt).
C26_NoInteractiveAfterAdvance ==
    (pc \in {"redirect", "exchange"} /\ Unwrap(call).stage = Initial) => allow_backwards

\* The two errors of the monotonicity check.
StageErrors == {Err("LoginStageErrorBackwards"), Err("LoginStageErrorDidntChange")}

\* What login may return when it does not refuse a stage: success, the
\* cancellation, or the error of an exchange (that of the redirect server
\* included).
OrdinaryEnds ==
    {Err(e) : e \in ErrorKinds \cup {"InvalidGrant", "ServeRedirectError", "CancelledByUser"}}

\* C27: as long as no stage() call of the attempt has met a token that
\* expired after the attempt began, (1) login has not returned
\* LoginStageErrorBackwards or LoginStageErrorDidntChange, (2) if it has
\* returned, it returned success, CancelledByUser or the error of an
\* exchange, (3) every exchange call was dispatched on the stage the check
\* let through, and (4) the stage resolved after a successful exchange is
\* strictly higher than the stage of that exchange.
C27_NoStageErrorWithoutExpiry ==
    ~lapsed
    => /\ result \notin StageErrors
       /\ pc = "done" => (result.tag = "Ok" \/ result \in OrdinaryEnds)
       /\ IsSome(exchange) => Unwrap(exchange).stage = hist[Unwrap(exchange).index]
       /\ (/\ IsSome(exchange)
           /\ Unwrap(exchange).outcome = "ok"
           /\ Len(hist) > Unwrap(exchange).index)
          => hist[Unwrap(exchange).index + 1] > Unwrap(exchange).stage

\* C27 witness: the clock advanced to the end of the run, no token lapsed,
\* and the attempt fell back once, was refreshed and climbed to success.
C27_Witness ==
    /\ ~lapsed
    /\ now = MaxTime
    /\ pc = "done"
    /\ result.tag = "Ok"
    /\ hist = <<MsaAccess, MsaRefresh, MsaAccess, XboxLive, XboxSecure, AccessToken>>
    /\ Len(calls) = 6

\* The last exchange call that returned was a fallback: it failed, the arm
\* cleared the field it had consumed and the loop went round.
FellBack ==
    /\ IsSome(exchange)
    /\ Unwrap(exchange).outcome # "ok"
    /\ ~Unwrap(exchange).returned

\* C28: once the iteration after a fallback has resolved its stage, that
\* stage is strictly lower than the stage whose arm fell back, and login has
\* not returned LoginStageErrorDidntChange or LoginStageErrorBackwards;
\* whatever the clock read at any stage() call.
C28_FallbackLowersStage ==
    (FellBack /\ Len(hist) > Unwrap(exchange).index)
    => /\ hist[Unwrap(exchange).index + 1] < Unwrap(exchange).stage
       /\ result \notin StageErrors

\* C28 witness: get_minecraft_profile failed and the access token was
\* cleared; by the next stage() call the XSTS, XBL and MSA access tokens had
\* expired, and the iteration went on with the refresh token.
C28_Witness ==
    /\ FellBack
    /\ Unwrap(exchange).stage = AccessToken
    /\ hist = <<AccessToken, MsaRefresh>>
    /\ lapsed
    /\ Unwrap(exchange).pre.xsts # <<>>
    /\ Unwrap(exchange).pre.msa_access # <<>>
    /\ pc = "exchange"

\* ------------------------------------------------------------------------
\* Claims about Lockfile (checked under SpecLock).

\* The tasks that own a Lockfile of path p (a Lockfile whose drop has begun
\* counts until its permit is dropped).
Holders(p) ==
    {t \in Tasks : lock_call[t].path = p /\ lock_call[t].at \in {"held", "dropping"}}

\* The tasks that own a permit of path p's semaphore.
PermitOwners(p) ==
    {t \in Tasks : /\ lock_call[t].path = p
                   /\ lock_call[t].at \in {"permit", "blocking", "held", "dropping"}}

\* At most one Lockfile of each path exists; the permit of each semaphore is
\* in the semaphore or owned by exactly one call in progress or Lockfile, so
\* a call that has returned (an I/O error included) owns none; and a
\* try_create call never waits.
LockfileInvariant ==
    /\ \A p \in Paths :
         /\ Cardinality(Holders(p)) <= 1
         /\ IF LOCKED[p] = None
            THEN PermitOwners(p) = {}
            ELSE Unwrap(LOCKED[p]).permits + Cardinality(PermitOwners(p)) = 1
    /\ \A t \in Tasks :
         /\ lock_call[t].at = "idle" => lock_call[t].path = "-"
         /\ lock_call[t].op = "try_create" => lock_call[t].at \notin {"waiting", "blocking"}

\* A call returns a Lockfile only in a state where no other Lockfile of its
\* path exists.
CompletesAfterDrop ==
    \A t \in Tasks :
        (lock_call[t].at # "held" /\ lock_call'[t].at = "held")
        => Holders(lock_call[t].path) = {}

\* try_create's try_acquire_owned, in a state where a Lockfile of its path
\* exists, returns Ok(None) in that very step.
TryCreateReturnsNone ==
    \A t \in Tasks :
        (/\ lock_call[t].op = "try_create"
         /\ lock_call[t].at = "semaphore"
         /\ lock_call'[t] # lock_call[t]
         /\ Holders(lock_call[t].path) # {})
        => lock_call'[t] = [IdleCall EXCEPT !.ret = "None"]

\* C29: in one process at most one Lockfile of a path exists at any time;
\* create returns a Lockfile of a held path only after that Lockfile has been
\* dropped; try_create of a held path returns None without waiting; and a
\* call that fails with an I/O error leaves its permit released.
C29_LockfileExclusive ==
    /\ []LockfileInvariant
    /\ [][CompletesAfterDrop /\ TryCreateReturnsNone]_vars

\* C29 witness: one task holds the Lockfile of a path, a create call of the
\* same path is queued behind it, a third call has returned an I/O error,
\* and the semaphore has no permit left.
C29_Witness ==
    /\ lock_call[1] = [op |-> "create", path |-> "launcher.lock", at |-> "held", ret |-> "Lockfile"]
    /\ lock_call[2] = [op |-> "create", path |-> "launcher.lock", at |-> "waiting", ret |-> "-"]
    /\ lock_call[3] = [IdleCall EXCEPT !.ret = "Err"]
    /\ Unwrap(LOCKED["launcher.lock"]) = [permits |-> 0, waiters |-> <<2>>]
    /\ file_lock["launcher.lock"] = "handle"

\* ------------------------------------------------------------------------
\* Claims about NotifySignal (checked under SpecNotify).

\* The number of await_notification calls of task a that have returned.
Returned(a) == IF awaiter[a].at = "idle" THEN awaiter[a].calls ELSE awaiter[a].calls - 1

\* No await_notification call has returned unless notify has swapped the
\* value; and the value is true once a notify call is past its swap, has
\* added its permits, or the KeepAliveNotifySignal has been dropped.
NoSpuriousWakeup ==
    /\ \A a \in Awaiters : Returned(a) > 0 => is_notified
    /\ (\/ \E n \in Notifiers : notifier[n] = "add_permits"
        \/ notify > 0
        \/ keep_alive = Some("dropped"))
       => is_notified

\* is_notified, once true, is true in the next state; and a call of
\* await_notification made when it is true returns in the step that makes it.
StaysNotified ==
    /\ is_notified => is_notified'
    /\ \A a \in Awaiters :
         (is_notified /\ awaiter'[a].calls > awaiter[a].calls)
         => (awaiter'[a].at = "idle" /\ ~awaiter'[a].waited)

\* C30: no await_notification call returns before notify has been called;
\* once notify has been called or the KeepAliveNotifySignal dropped,
\* is_notified is true in every later state; and every await_notification
\* call in progress then returns, as does at once every call made later.
C30_NoLostOrSpuriousWakeup ==
    /\ []NoSpuriousWakeup
    /\ [][StaysNotified]_vars
    /\ \A a \in Awaiters : is_notified ~> (awaiter[a].at = "idle")

\* C30 witness: the KeepAliveNotifySignal has been dropped; one task had
\* called await_notification before and returned from acquire(), the other
\* called it afterwards and returned at once.
C30_Witness ==
    /\ keep_alive = Some("dropped")
    /\ is_notified
    /\ notify = MAX_PERMITS
    /\ awaiter[1] = [at |-> "idle", calls |-> 1, waited |-> TRUE]
    /\ awaiter[2] = [at |-> "idle", calls |-> 1, waited |-> FALSE]

====
